---- MODULE Spec2Model ----
\* A model of src/app.py, the IFA news curation pipeline: model discovery
\* (get_active_model_name), feed aggregation (fetch_news), selection
\* (filter_news_with_gemini), batched summarisation (batch_summarize_articles)
\* and the body of main that runs them and renders the result.
\*
\* Python values are modelled as follows.
\*   * Identifiers of generative models are sequences of one-character strings,
\*     so that str.lower() and the substring test `x in s` are computed.
\*   * Titles and links of articles are strings; only equality is used on them.
\*   * A Python list is a sequence; a list index i of the program is the
\*     position i + 1 of the sequence.
\*   * The external services (the provider's model listing, the four feeds,
\*     the two generation calls) are inputs: each action draws the service's
\*     answer from a bounded set.
EXTENDS Integers, Sequences, FiniteSets, TLC

VARIABLES
    \* ---- get_active_model_name ----
    rpc,            \* "init" before the first call, "resolved" after a call
    listed,         \* what genai.list_models() answered in the last call
    resolved,       \* what the last call of get_active_model_name returned
    \* ---- main, after the button is pressed ----
    pc,             \* position in main: "idle", "fetch", "filter",
                    \* "summarize", "display", "done", "crashed"
    feedIdx,        \* fetch_news: index (1-based) of the next url of rss_urls
    articles,       \* fetch_news: the list `articles`; then main's `articles`
    seen_links,     \* fetch_news: the set `seen_links`
    fetched,        \* per feed, what feedparser.parse answered in this run
    usedMock,       \* fetch_news returned mock_articles
    rankResp,       \* the answer to filter_news_with_gemini's generation call
    selected_indices, \* main: the value filter_news_with_gemini returned
    genResp,        \* the answer to batch_summarize_articles' generation call
    returned,       \* what batch_summarize_articles returned
    summaries_data, \* main: summaries_data after the placeholder substitution
    emitted,        \* the (article, commentary) blocks rendered so far
    summarizeCalls, \* generate_content calls issued by batch_summarize_articles in this run
    runs,           \* number of presses of the start button so far
    fetchSeqs,      \* number of executions of fetch_news so far
    genSeqs         \* number of executions of the generation steps so far

vars == <<rpc, listed, resolved, pc, feedIdx, articles, seen_links, fetched,
          usedMock, rankResp, selected_indices, genResp, returned,
          summaries_data, emitted, summarizeCalls, runs, fetchSeqs, genSeqs>>

resolverVars == <<rpc, listed, resolved>>

mainVars == <<pc, feedIdx, articles, seen_links, fetched, usedMock, rankResp,
              selected_indices, genResp, returned, summaries_data, emitted,
              summarizeCalls, runs, fetchSeqs, genSeqs>>

\* ------------------------------------------------------------------
\* Bounds of the model
\* ------------------------------------------------------------------

\* Longest model listing the provider answers with.
MaxModels == 3

\* Most entries of an ordinary feed document.
MaxEntries == 3

\* How many entries the long feed document has beyond the per-feed cap.
OverCap == 1

\* How many times the start button is pressed (specification SpecRepeat).
MaxRuns == 2

\* ------------------------------------------------------------------
\* Sequence helpers
\* ------------------------------------------------------------------

\* Python's `x in xs` for a list xs.
InSeq(x, xs) == \E i \in 1..Len(xs) : xs[i] = x

\* Python's xs[:n] for n >= 0.
Take(xs, n) == IF Len(xs) <= n THEN xs ELSE SubSeq(xs, 1, n)

\* All sequences over S of length at most n.
SeqsUpTo(S, n) == UNION {[1..k -> S] : k \in 0..n}

\* ------------------------------------------------------------------
\* 2. Model discovery: get_active_model_name
\* ------------------------------------------------------------------

\* 'models/gemini-1.5-flash'
NameFlashStable ==
    <<"m","o","d","e","l","s","/","g","e","m","i","n","i","-","1",".","5","-","f","l","a","s","h">>
\* 'models/gemini-2.0-flash-exp'
NameFlashExp ==
    <<"m","o","d","e","l","s","/","g","e","m","i","n","i","-","2",".","0","-","f","l","a","s","h","-","e","x","p">>
\* 'models/Gemini-FLASH-8b'
NameFlashUpper ==
    <<"m","o","d","e","l","s","/","G","e","m","i","n","i","-","F","L","A","S","H","-","8","b">>
\* 'models/gemini-1.5-pro'
NamePro ==
    <<"m","o","d","e","l","s","/","g","e","m","i","n","i","-","1",".","5","-","p","r","o">>
\* 'models/gemma-3'
NameOther ==
    <<"m","o","d","e","l","s","/","g","e","m","m","a","-","3">>

\* The identifiers the provider's listing is drawn from.
ModelNames == {NameFlashStable, NameFlashExp, NameFlashUpper, NamePro, NameOther}

\* The hardcoded identifier of the last line: 'models/gemini-pro'
FallbackModel ==
    <<"m","o","d","e","l","s","/","g","e","m","i","n","i","-","p","r","o">>

\* The literals "flash" and "pro" of the two scans.
LitFlash == <<"f","l","a","s","h">>
LitPro == <<"p","r","o">>

\* str.lower() on one character (the upper-case letters the names use).
LowerChar(c) ==
    CASE c = "G" -> "g"
      [] c = "F" -> "f"
      [] c = "L" -> "l"
      [] c = "A" -> "a"
      [] c = "S" -> "s"
      [] c = "H" -> "h"
      [] OTHER -> c

\* str.lower()
Lower(s) == [i \in 1..Len(s) |-> LowerChar(s[i])]

\* Python's `sub in s` for strings.
Contains(s, sub) ==
    \E k \in 0..(Len(s) - Len(sub)) :
        \A j \in 1..Len(sub) : s[k + j] = sub[j]

\* A model descriptor of the listing: its name, and whether 'generateContent'
\* is among its supported_generation_methods.
ModelDescriptors == [name : ModelNames, generates : BOOLEAN]

\* What genai.list_models() does: it raises, or it yields a list of descriptors.
ListingOutcomes ==
    {[raised |-> TRUE, models |-> <<>>]}
    \cup {[raised |-> FALSE, models |-> ms] : ms \in SeqsUpTo(ModelDescriptors, MaxModels)}

\* A function's outcome: it returns a value or lets an exception escape.
Return(v) == [raised |-> FALSE, value |-> v]
Raise == [raised |-> TRUE, value |-> <<>>]

\* available_models: the names of the generation-capable models, in listing order.
AvailableModels(models) ==
    LET capable == SelectSeq(models, LAMBDA m : m.generates)
    IN  [i \in 1..Len(capable) |-> capable[i].name]

\* The scan keeping the last match instead of returning at the first.
LastMatch(xs, lit) ==
    LET hits == {i \in 1..Len(xs) : Contains(Lower(xs[i]), lit)}
    IN  IF hits = {} THEN 0 ELSE CHOOSE i \in hits : \A j \in hits : i >= j

\* `for m in xs: if lit in m.lower(): return m`: the first match, by position.
FirstMatch(xs, lit) ==
    LET hits == {i \in 1..Len(xs) : Contains(Lower(xs[i]), lit)}
    IN  IF hits = {} THEN 0 ELSE CHOOSE i \in hits : \A j \in hits : i <= j

\* The body of the try block once list_models has answered.
PickModel(available_models) ==
    IF FirstMatch(available_models, LitFlash) # 0
        THEN available_models[FirstMatch(available_models, LitFlash)]
    ELSE IF FirstMatch(available_models, LitPro) # 0
        THEN available_models[FirstMatch(available_models, LitPro)]
    ELSE IF available_models # <<>>
        THEN available_models[1]
    ELSE FallbackModel

\* get_active_model_name without its except clause: a failure of the
\* listing escapes.
GetActiveModelNameNoExcept(outcome) ==
    IF outcome.raised
        THEN Raise
        ELSE Return(PickModel(AvailableModels(outcome.models)))

\* get_active_model_name: the except clause turns a failure of the listing
\* into the hardcoded identifier.
GetActiveModelName(outcome) ==
    IF outcome.raised
        THEN Return(FallbackModel)
        ELSE Return(PickModel(AvailableModels(outcome.models)))

\* main calls get_active_model_name once in every run of the script.
ResolveModel ==
    /\ rpc = "init"
    /\ \E outcome \in ListingOutcomes :
        /\ listed' = outcome
        /\ resolved' = GetActiveModelName(outcome)
    /\ rpc' = "resolved"
    /\ UNCHANGED mainVars

\* Streamlit runs the script again: main will call get_active_model_name anew.
ScriptRerun ==
    /\ rpc = "resolved"
    /\ rpc' = "init"
    /\ listed' = [raised |-> FALSE, models |-> <<>>]
    /\ resolved' = Return(<<>>)
    /\ UNCHANGED mainVars

\* ------------------------------------------------------------------
\* 3. RSS data source: fetch_news
\* ------------------------------------------------------------------

\* len(rss_urls): the four configured feeds, one per category.
NumFeeds == 4

\* feed.entries[:20]
PerFeedCap == 20

\* An attribute the entry does not have: reading it raises AttributeError.
Missing == "<missing>"

\* The i-th entry of feed f's own stories.
Entry(f, i) ==
    [title |-> "T" \o ToString(f) \o "." \o ToString(i),
     link  |-> "L" \o ToString(f) \o "." \o ToString(i)]

\* A syndicated story: every feed may carry it, under the same link.
SharedEntry == [title |-> "Tshared", link |-> "Lshared"]

\* An entry without a link attribute.
NoLinkEntry == [title |-> "Tnolink", link |-> Missing]

\* What feedparser.parse(url) does: it raises, or it answers a document with
\* its bozo flag and its entries.
Doc(b, es) == [raised |-> FALSE, bozo |-> b, entries |-> es]
DocRaised == [raised |-> TRUE, bozo |-> TRUE, entries |-> <<>>]

\* The feeds that may answer with more entries than the cap.
LongFeeds == {1}

\* The answers feed f is drawn from.
FeedDocs(f) ==
    {DocRaised, Doc(TRUE, <<>>), Doc(FALSE, <<>>)}
    \cup {Doc(FALSE, [i \in 1..n |-> Entry(f, i)]) : n \in 1..MaxEntries}
    \cup {Doc(FALSE, <<SharedEntry, Entry(f, 1)>>),
          Doc(TRUE, <<Entry(f, 1), NoLinkEntry>>)}
    \cup (IF f \in LongFeeds
            THEN {Doc(FALSE, [i \in 1..(PerFeedCap + OverCap) |-> Entry(f, i)])}
            ELSE {})

\* An article of the pool. Its summary, published and source keys are read
\* with entry.get and a default, cannot fail and decide nothing: they are
\* left out. `feed` is not a key of the program's dict: it
\* records which feed (category) the article came from, 0 for mock data.
Article(e, f) == [title |-> e.title, link |-> e.link, feed |-> f]

\* mock_articles: six titles, all under the link "https://google.com".
MockArticles ==
    [i \in 1..6 |-> [title |-> "Mock" \o ToString(i), link |-> "https://google.com", feed |-> 0]]

\* `for entry in feed.entries[:20]`, from position i on: the state of
\* (articles, seen_links) at the end, or raised when an attribute is missing.
RECURSIVE ScanEntries(_, _, _, _, _)
ScanEntries(es, i, f, arts, seen) ==
    IF i > Len(es)
        THEN [raised |-> FALSE, articles |-> arts, seen |-> seen]
    ELSE IF es[i].link = Missing
        THEN [raised |-> TRUE, articles |-> arts, seen |-> seen]
    ELSE IF es[i].link \notin seen
        THEN IF es[i].title = Missing
                THEN [raised |-> TRUE, articles |-> arts, seen |-> seen]
                ELSE ScanEntries(es, i + 1, f, Append(arts, Article(es[i], f)),
                                 seen \cup {es[i].link})
    ELSE ScanEntries(es, i + 1, f, arts, seen)

\* One iteration of `for url in rss_urls` on the answer doc.
FeedStep(doc, f, arts, seen) ==
    IF doc.raised
        THEN [raised |-> TRUE, articles |-> arts, seen |-> seen]
    ELSE IF doc.entries = <<>> /\ doc.bozo
        THEN [raised |-> FALSE, articles |-> arts, seen |-> seen]
    ELSE ScanEntries(Take(doc.entries, PerFeedCap), 1, f, arts, seen)

\* The button: main enters the `if st.button(...)` block and calls fetch_news.
StartCuration ==
    /\ pc = "idle"
    /\ pc' = "fetch"
    /\ feedIdx' = 1
    /\ articles' = <<>>
    /\ seen_links' = {}
    /\ fetched' = <<>>
    /\ usedMock' = FALSE
    /\ runs' = runs + 1
    /\ fetchSeqs' = fetchSeqs + 1
    /\ UNCHANGED <<rankResp, selected_indices, genResp, returned,
                   summaries_data, emitted, summarizeCalls, genSeqs>>
    /\ UNCHANGED resolverVars

\* fetch_news hands `result` to main; main returns at once on an empty list.
FetchReturns(result, mock) ==
    /\ articles' = result
    /\ usedMock' = mock
    /\ pc' = IF result = <<>> THEN "done" ELSE "filter"
    /\ feedIdx' = 0
    /\ seen_links' = {}

\* One iteration of fetch_news' loop over rss_urls. An exception anywhere in
\* the try block, and an empty `articles` after the last feed, end in the
\* except clause, which returns mock_articles.
FetchFeed ==
    /\ pc = "fetch"
    /\ \E doc \in FeedDocs(feedIdx) :
        LET r == FeedStep(doc, feedIdx, articles, seen_links)
        IN  /\ fetched' = Append(fetched, doc)
            /\ IF r.raised
                  THEN FetchReturns(MockArticles, TRUE)
               ELSE IF feedIdx < NumFeeds
                  THEN /\ articles' = r.articles
                       /\ seen_links' = r.seen
                       /\ feedIdx' = feedIdx + 1
                       /\ UNCHANGED <<pc, usedMock>>
               ELSE IF r.articles = <<>>
                  THEN FetchReturns(MockArticles, TRUE)
               ELSE FetchReturns(r.articles, FALSE)
    /\ UNCHANGED <<rankResp, selected_indices, genResp, returned,
                   summaries_data, emitted, summarizeCalls, runs, fetchSeqs, genSeqs>>
    /\ UNCHANGED resolverVars

\* ------------------------------------------------------------------
\* 4. Step A: filter_news_with_gemini
\* ------------------------------------------------------------------

\* target_count
target_count == 6

\* An element of the JSON list the ranking model answers with. A JSON
\* true/false parses to a Python bool, which is an int (True == 1).
JInt(n) == [type |-> "int", val |-> n]
JBool(n) == [type |-> "bool", val |-> n]
JStr(n) == [type |-> "str", val |-> n]
JFloat(n) == [type |-> "float", val |-> n]

\* The answer of the ranking call: the call raises ("raise"), the text is
\* not JSON ("badjson"), it parses to a number or null ("scalar"), to an
\* object ("dict", whose keys are strings) or to a list.
RankAnswer(k, xs) == [kind |-> k, items |-> xs]

\* [0, 1, ..., k-1] as JSON integers.
Ascending(k) == [i \in 1..k |-> JInt(i - 1)]

\* The answers the ranking call is drawn from, for a pool of n articles.
RankResponses(n) ==
    {RankAnswer("raise", <<>>), RankAnswer("badjson", <<>>),
     RankAnswer("scalar", <<>>), RankAnswer("dict", <<JStr(0), JStr(1)>>)}
    \cup {RankAnswer("list", xs) : xs \in
            {<<>>,
             <<JInt(0), JInt(0)>>,
             [i \in 1..target_count |-> JInt(0)],
             Ascending(target_count),
             [i \in 1..(target_count + 1) |-> JInt(n - i)],
             <<JInt(-1), JInt(n), JStr(2), JFloat(1), JBool(1), JInt(2)>>,
             <<JInt(n - 1)>>}}

\* isinstance(i, int)
IsInt(e) == e.type \in {"int", "bool"}

\* The try block: valid_indices after the call, [] on any exception
\* (iterating a number raises TypeError; iterating a dict yields its keys).
ValidIndices(resp, n) ==
    IF resp.kind \in {"raise", "badjson", "scalar"}
        THEN <<>>
        ELSE LET kept == SelectSeq(resp.items,
                            LAMBDA e : IsInt(e) /\ 0 <= e.val /\ e.val < n)
             IN  [i \in 1..Len(kept) |-> kept[i].val]

\* The padding loop `for i in range(len(articles))` from i on.
RECURSIVE PadFrom(_, _, _)
PadFrom(valid, i, n) ==
    IF i >= n
        THEN valid
        ELSE LET v == IF InSeq(i, valid) THEN valid ELSE Append(valid, i)
             IN  IF Len(v) >= target_count THEN v ELSE PadFrom(v, i + 1, n)

\* The padding loop stopping one index early (range(len(articles) - 1)).
PadShort(valid, n) ==
    IF Len(valid) < target_count THEN PadFrom(valid, 0, n - 1) ELSE valid

\* Python fallback padding.
Pad(valid, n) ==
    IF Len(valid) < target_count THEN PadFrom(valid, 0, n) ELSE valid

\* filter_news_with_gemini(articles, model) on the answer resp.
FilterNews(arts, resp) ==
    Take(Pad(ValidIndices(resp, Len(arts)), Len(arts)), target_count)

\* main, step 2: the call of filter_news_with_gemini; an empty selection
\* ends the run.
Filter ==
    /\ pc = "filter"
    /\ \E resp \in RankResponses(Len(articles)) :
        /\ rankResp' = resp
        /\ selected_indices' = FilterNews(articles, resp)
        /\ pc' = IF FilterNews(articles, resp) = <<>> THEN "done" ELSE "summarize"
    /\ genSeqs' = genSeqs + 1
    /\ fetched' = <<>>
    /\ UNCHANGED <<feedIdx, articles, seen_links, usedMock, genResp, returned,
                   summaries_data, emitted, summarizeCalls, runs, fetchSeqs>>
    /\ UNCHANGED resolverVars

\* selected_articles = [articles[i] for i in selected_indices]
SelectedArticles(arts, idx) == [k \in 1..Len(idx) |-> arts[idx[k] + 1]]

selected_articles == SelectedArticles(articles, selected_indices)

\* ------------------------------------------------------------------
\* 4. Step B: batch_summarize_articles, and main's steps 3 and 4
\* ------------------------------------------------------------------

\* An element of the JSON list the generation call answers with: an object
\* (with or without its keys), or a value that is no object.
Commentary(t) == [object |-> TRUE, keys |-> TRUE, title |-> t, summary |-> "generated"]
EmptyObject == [object |-> TRUE, keys |-> FALSE, title |-> "", summary |-> ""]
NonObject == [object |-> FALSE, keys |-> FALSE, title |-> "", summary |-> ""]

\* The answer of the summarisation call: the provider raises (quota,
\* not found, other), the text is not JSON ("badjson"), it parses to a value
\* that is no list ("nonlist"), or it parses to a list.
GenAnswer(k, xs) == [kind |-> k, items |-> xs]

\* One commentary per article of sel, in order, for the first k; entries
\* beyond the selection are about an article nobody asked for.
Commentaries(sel, k) ==
    [i \in 1..k |-> IF i <= Len(sel) THEN Commentary(sel[i].title) ELSE Commentary("Textra")]

\* xs with its element at position p replaced by x.
ReplaceAt(xs, p, x) == [i \in 1..Len(xs) |-> IF i = p THEN x ELSE xs[i]]

\* The answers the summarisation call is drawn from, for the selection sel.
GenResponses(sel) ==
    {GenAnswer(k, <<>>) : k \in {"quota", "notfound", "other", "badjson", "nonlist"}}
    \cup {GenAnswer("list", Commentaries(sel, k)) :
            k \in {0, target_count \div 2, Len(sel), Len(sel) + 1}}
    \cup {GenAnswer("list", ReplaceAt(Commentaries(sel, Len(sel)), 2, NonObject)),
          GenAnswer("list", ReplaceAt(Commentaries(sel, Len(sel)), 1, EmptyObject))}

\* The generate_content calls batch_summarize_articles issues on resp.
SummarizeRequests(resp) == 1

\* batch_summarize_articles catching only parse errors: a provider error
\* escapes.
BatchSummarizeNoCatch(resp) ==
    IF resp.kind = "list" THEN Return(resp.items)
    ELSE IF resp.kind \in {"quota", "notfound", "other"} THEN Raise
    ELSE Return(<<>>)

\* batch_summarize_articles(articles, model) on the answer resp: the parsed
\* list, and [] on an exception or a parsed value that is no list.
BatchSummarize(resp) ==
    IF resp.kind = "list" THEN Return(resp.items) ELSE Return(<<>>)

\* The summary text of a placeholder record (the program's literal is the
\* Chinese for "AI generation failed").
PlaceholderSummary == "AI generation failed"

\* The placeholder records main builds when summaries_data is empty.
Placeholders(sel) ==
    [i \in 1..Len(sel) |->
        [object |-> TRUE, keys |-> TRUE, title |-> sel[i].title, summary |-> PlaceholderSummary]]

\* `if not summaries_data: summaries_data = [...]`
Substitute(data, sel) == IF data = <<>> THEN Placeholders(sel) ELSE data

\* main, step 3: the call of batch_summarize_articles and the placeholder
\* substitution. An exception escaping the call would end main.
Summarize ==
    /\ pc = "summarize"
    /\ \E resp \in GenResponses(selected_articles) :
        /\ genResp' = resp
        /\ returned' = BatchSummarize(resp)
        /\ summarizeCalls' = SummarizeRequests(resp)
        /\ IF BatchSummarize(resp).raised
              THEN /\ pc' = "crashed"
                   /\ UNCHANGED summaries_data
              ELSE /\ pc' = "display"
                   /\ summaries_data' = Substitute(BatchSummarize(resp).value, selected_articles)
    /\ genSeqs' = genSeqs + 1
    /\ rankResp' = RankAnswer("none", <<>>)
    /\ UNCHANGED <<feedIdx, articles, seen_links, fetched, usedMock,
                   selected_indices, emitted, runs, fetchSeqs>>
    /\ UNCHANGED resolverVars

\* The block rendered for summaries_data[index]: the item's title and summary
\* (item.get with its defaults) and the link of the selected article at the
\* same position, "#" when there is none.
Block(item, index, sel) ==
    [title   |-> IF item.keys THEN item.title ELSE "Unknown Title",
     summary |-> IF item.keys THEN item.summary ELSE "No summary.",
     link    |-> IF index < Len(sel) THEN sel[index + 1].link ELSE "#"]

\* The items rendered by `for index, item in enumerate(summaries_data)`:
\* item.get raises AttributeError on the first item that is no object, and
\* the exception leaves main.
Renderable(data) ==
    LET bad == {i \in 1..Len(data) : ~data[i].object}
    IN  IF bad = {} THEN Len(data) ELSE (CHOOSE i \in bad : \A j \in bad : i <= j) - 1

\* main, step 4: the display loop.
Display ==
    /\ pc = "display"
    /\ emitted' = [i \in 1..Renderable(summaries_data) |->
                      Block(summaries_data[i], i - 1, selected_articles)]
    /\ pc' = IF Renderable(summaries_data) = Len(summaries_data) THEN "done" ELSE "crashed"
    /\ UNCHANGED <<feedIdx, articles, seen_links, fetched, usedMock, rankResp,
                   selected_indices, genResp, returned, summaries_data,
                   summarizeCalls, runs, fetchSeqs, genSeqs>>
    /\ UNCHANGED resolverVars

\* Streamlit runs the script again on the next interaction: the page and
\* main's locals start afresh, nothing of the previous run is kept.
Rerun ==
    /\ pc \in {"done", "crashed"}
    /\ runs < MaxRuns
    /\ pc' = "idle"
    /\ feedIdx' = 0
    /\ articles' = <<>>
    /\ seen_links' = {}
    /\ fetched' = <<>>
    /\ usedMock' = FALSE
    /\ rankResp' = RankAnswer("none", <<>>)
    /\ selected_indices' = <<>>
    /\ genResp' = GenAnswer("none", <<>>)
    /\ returned' = Return(<<>>)
    /\ summaries_data' = <<>>
    /\ emitted' = <<>>
    /\ summarizeCalls' = 0
    /\ UNCHANGED <<runs, fetchSeqs, genSeqs>>
    /\ UNCHANGED resolverVars

\* ------------------------------------------------------------------
\* Specifications
\* ------------------------------------------------------------------

Init ==
    /\ rpc = "init"
    /\ listed = [raised |-> FALSE, models |-> <<>>]
    /\ resolved = Return(<<>>)
    /\ pc = "idle"
    /\ feedIdx = 0
    /\ articles = <<>>
    /\ seen_links = {}
    /\ fetched = <<>>
    /\ usedMock = FALSE
    /\ rankResp = RankAnswer("none", <<>>)
    /\ selected_indices = <<>>
    /\ genResp = GenAnswer("none", <<>>)
    /\ returned = Return(<<>>)
    /\ summaries_data = <<>>
    /\ emitted = <<>>
    /\ summarizeCalls = 0
    /\ runs = 0
    /\ fetchSeqs = 0
    /\ genSeqs = 0

\* One press of the start button. The model object main builds from the
\* resolved identifier only parameterises the two generation calls, whose
\* answers are inputs here, so model discovery is specified on its own
\* (SpecResolver).
Next ==
    \/ StartCuration
    \/ FetchFeed
    \/ Filter
    \/ Summarize
    \/ Display

Spec == Init /\ [][Next]_vars

\* Repeated presses of the start button.
NextRepeat ==
    \/ StartCuration
    \/ FetchFeed
    \/ Filter
    \/ Summarize
    \/ Display
    \/ Rerun

SpecRepeat == Init /\ [][NextRepeat]_vars

\* Model discovery alone: main's call, and the script being run again.
NextResolver ==
    \/ ResolveModel
    \/ ScriptRerun

SpecResolver == Init /\ [][NextResolver]_vars

\* ------------------------------------------------------------------
\* Properties
\* ------------------------------------------------------------------

\* filter_news_with_gemini has returned in this run.
Filtered == pc \in {"summarize", "display", "done", "crashed"}

\* batch_summarize_articles has returned in this run.
Summarized == genResp.kind # "none"

\* The display loop has ended in this run.
Displayed == Summarized /\ pc \in {"done", "crashed"}

\* C1: for a pool of at least K = 6 articles and every answer of the ranking
\* model, filter_news_with_gemini returns exactly K indices, each an index
\* of the pool (0 .. len(pool) - 1).
C1_ExactlyK ==
    (Filtered /\ Len(articles) >= target_count) =>
        /\ Len(selected_indices) = target_count
        /\ \A k \in 1..Len(selected_indices) :
              selected_indices[k] \in 0..(Len(articles) - 1)

\* C1 witness: the model answered with a list of two indices for a pool of
\* more than K articles, and padding made the selection K long.
C1_Witness ==
    /\ pc = "summarize"
    /\ Len(articles) > target_count
    /\ rankResp.kind = "list"
    /\ Len(rankResp.items) = 2
    /\ Len(selected_indices) = target_count

\* C2: no two entries of the Selection Set share a link or a title.
C2_NoDuplicates ==
    Filtered =>
        \A i, j \in 1..Len(selected_indices) :
            i < j => /\ selected_articles[i].link # selected_articles[j].link
                     /\ selected_articles[i].title # selected_articles[j].title

\* C3: for a pool of n < K articles the selection has exactly n entries and
\* every article of the pool is selected once.
C3_SmallPool ==
    (Filtered /\ Len(articles) < target_count) =>
        /\ Len(selected_indices) = Len(articles)
        /\ \A a \in 0..(Len(articles) - 1) :
              Cardinality({k \in 1..Len(selected_indices) : selected_indices[k] = a}) = 1

\* The feeds (categories) that contributed an article to the sequence arts.
FeedsOf(arts) == {arts[i].feed : i \in 1..Len(arts)}

\* C4: when each of the four feeds contributed an article to the pool, the
\* Selection Set holds an article of each of the four feeds.
C4_EveryCategory ==
    (Filtered /\ FeedsOf(articles) = 1..NumFeeds) =>
        FeedsOf(selected_articles) = 1..NumFeeds

\* C5: for a Selection Set of K articles the run is not aborted and emits
\* exactly K blocks, the k-th carrying the link of the k-th selected article.
C5_KPairs ==
    (Displayed /\ Len(selected_indices) = target_count) =>
        /\ pc = "done"
        /\ Len(emitted) = target_count
        /\ \A k \in 1..Len(emitted) : emitted[k].link = selected_articles[k].link

\* A feed failed: the parse call raised, the document came back faulty and
\* empty, or one of its entries lacks a field.
FeedFailed(doc) ==
    \/ doc.raised
    \/ doc.entries = <<>> /\ doc.bozo
    \/ \E i \in 1..Len(doc.entries) :
          doc.entries[i].link = Missing \/ doc.entries[i].title = Missing

\* The pool failure isolation promises: the articles of the feeds that did
\* not fail, capped per feed, without repeated links, in feed order.
RECURSIVE IsolatedPool(_, _, _, _)
IsolatedPool(docs, f, arts, seen) ==
    IF f > Len(docs)
        THEN arts
    ELSE IF FeedFailed(docs[f])
        THEN IsolatedPool(docs, f + 1, arts, seen)
    ELSE LET kept == Take(docs[f].entries, PerFeedCap)
             fresh == {i \in 1..Len(kept) :
                          /\ kept[i].link \notin seen
                          /\ \A j \in 1..(i - 1) : kept[j].link # kept[i].link}
             new == SelectSeq([i \in 1..Len(kept) |-> [e |-> kept[i], at |-> i]],
                              LAMBDA x : x.at \in fresh)
         IN  IsolatedPool(docs, f + 1,
                          arts \o [i \in 1..Len(new) |-> Article(new[i].e, f)],
                          seen \cup {kept[i].link : i \in 1..Len(kept)})

\* C6: when fetch_news returns, every feed has been asked, and if any feed
\* delivered an article the pool is exactly the articles of the feeds that
\* did not fail and the mock data was not substituted.
C6_Isolation ==
    pc = "filter" =>
        /\ Len(fetched) = NumFeeds
        /\ IsolatedPool(fetched, 1, <<>>, {}) # <<>> =>
              /\ articles = IsolatedPool(fetched, 1, <<>>, {})
              /\ ~usedMock

\* C7: the presses of the start button in the model share one credential and
\* no time passes between them (the program keeps neither a key nor a clock),
\* so they fall in one TTL window: at most one fetch sequence and at most
\* one generation sequence (ranking call, summarisation call) are executed.
C7_AtMostOneRun ==
    /\ fetchSeqs <= 1
    /\ genSeqs <= 2

\* The listing holds no generation-capable model.
NoCapableModel ==
    \A i \in 1..Len(listed.models) : ~listed.models[i].generates

\* C8: get_active_model_name never raises and returns a non-empty
\* identifier, and when the listing failed or holds no generation-capable
\* model it returns the hardcoded "models/gemini-pro".
C8_Total ==
    rpc = "resolved" =>
        /\ ~resolved.raised
        /\ resolved.value # <<>>
        /\ (listed.raised \/ NoCapableModel) => resolved.value = FallbackModel

\* C8 witness: the listing answered with models, none generation-capable,
\* and the hardcoded identifier was returned.
C8_Witness ==
    /\ rpc = "resolved"
    /\ ~listed.raised
    /\ Len(listed.models) >= 2
    /\ NoCapableModel
    /\ resolved = Return(FallbackModel)

\* The tiers of the identifiers of ModelNames, read off their text.
FlashNames == {NameFlashStable, NameFlashExp, NameFlashUpper}
StableFlashNames == {NameFlashStable, NameFlashUpper}
ProNames == {NamePro}

\* The generation-capable identifiers of the listing, as a set.
Capable == {listed.models[i].name : i \in {j \in 1..Len(listed.models) : listed.models[j].generates}}

\* The identifier at position i of the listing is generation-capable and in
\* the set S of names, and no earlier one is.
FirstCapableIn(i, S) ==
    /\ listed.models[i].generates
    /\ listed.models[i].name \in S
    /\ \A j \in 1..(i - 1) : ~(listed.models[j].generates /\ listed.models[j].name \in S)

\* C9 as stated: a stable flash identifier whenever one is listed, otherwise
\* any flash identifier, otherwise a pro identifier, otherwise the first
\* available identifier, otherwise the hardcoded one.
C9_StableFlashFirst ==
    (rpc = "resolved" /\ ~listed.raised) =>
        IF Capable \cap StableFlashNames # {}
            THEN resolved.value \in Capable \cap StableFlashNames
        ELSE IF Capable \cap FlashNames # {}
            THEN resolved.value \in Capable \cap FlashNames
        ELSE IF Capable \cap ProNames # {}
            THEN resolved.value \in Capable \cap ProNames
        ELSE IF Capable # {}
            THEN \E i \in 1..Len(listed.models) :
                    FirstCapableIn(i, ModelNames) /\ resolved.value = listed.models[i].name
        ELSE resolved.value = FallbackModel

\* C9 amended: the first flash identifier in listing order, stable or not;
\* otherwise the first pro identifier in listing order; otherwise the first
\* available identifier; otherwise the hardcoded one.
C9_FirstFlashInOrder ==
    (rpc = "resolved" /\ ~listed.raised) =>
        IF Capable \cap FlashNames # {}
            THEN \E i \in 1..Len(listed.models) :
                    FirstCapableIn(i, FlashNames) /\ resolved.value = listed.models[i].name
        ELSE IF Capable \cap ProNames # {}
            THEN \E i \in 1..Len(listed.models) :
                    FirstCapableIn(i, ProNames) /\ resolved.value = listed.models[i].name
        ELSE IF Capable # {}
            THEN \E i \in 1..Len(listed.models) :
                    FirstCapableIn(i, ModelNames) /\ resolved.value = listed.models[i].name
        ELSE resolved.value = FallbackModel

\* C9 witness: an experimental flash identifier is listed before a stable
\* one, both generation-capable, and the experimental one was returned.
C9_Witness ==
    /\ rpc = "resolved"
    /\ ~listed.raised
    /\ \E i, j \in 1..Len(listed.models) :
          /\ i < j
          /\ FirstCapableIn(i, FlashNames)
          /\ listed.models[i].name = NameFlashExp
          /\ listed.models[j].generates
          /\ listed.models[j].name = NameFlashStable
    /\ resolved = Return(NameFlashExp)

====
